---- MODULE Spec2Model ----
(***************************************************************************)
(* The todo state store of src/src/stores/todoStore.ts (a zustand store    *)
(* with the persist middleware) together with the query helpers            *)
(* (sortTodos, filterTodos, calculateTodoStats) that live in the same      *)
(* file.  Every store handler is one action; JavaScript runs a handler to  *)
(* completion, so an action is the whole handler, nested calls included.   *)
(* The only asynchrony is the setTimeout callback of addNotification,      *)
(* which is the action TimerFire.                                          *)
(*                                                                         *)
(* Modelling conventions                                                   *)
(*  - JavaScript `undefined` in a string-typed slot is the string          *)
(*    Undefined; '' is the empty string "".  Both are falsy.               *)
(*  - A Date is the record [kind |-> "Date", ms |-> n]; the ISO string     *)
(*    JSON.stringify turns it into is [kind |-> "string", ms |-> n]; a     *)
(*    missing date is NoDate.                                              *)
(*  - A partial object (UpdateTodoForm, Partial<TodoFilter>) is a function *)
(*    whose DOMAIN is the set of keys it carries; object spread is Merge.  *)
(*  - generateId() concatenates Math.random() and Date.now(); the model    *)
(*    takes successive results to be pairwise different and numbers them.  *)
(*  - Every `new Date()` is a separate read of the clock: the clock may    *)
(*    advance between two reads made by the same handler.                  *)
(*  - Category keeps id and name; color, icon and createdAt are display    *)
(*    metadata no handler reads.                                           *)
(*  - The repository does not pin the version of date-fns.  Given a string *)
(*    where a Date is expected, date-fns 2.x makes an Invalid Date of it   *)
(*    and 1.x, 3.x and 4.x parse it; the build is one or the other         *)
(*    (dateFns).                                                           *)
(*  - The storage of the persist middleware is synchronous (localStorage)  *)
(*    and writes do not fail.                                              *)
(***************************************************************************)
EXTENDS Integers, Sequences, FiniteSets, TLC

VARIABLES
    todos,          \* state.todos: Todo[]
    categories,     \* state.categories: Category[]
    filters,        \* state.filters: TodoFilter
    notifications,  \* state.notifications: NotificationState[]
    timers,         \* ids of notifications whose setTimeout callback is pending
    now,            \* the last value read from the clock (ms)
    nextId,         \* number of generateId() calls made so far, plus one
    exported,       \* the last document exportData returned (a saved file)
    persisted,      \* the entry 'todo-store' of the storage
    dateFns,        \* what the date-fns of the build does with a string
    call,           \* the last call of a query helper: arguments and result
    steps,          \* number of handler and timer callbacks run so far
    last            \* the handler that ran last, with its identifier argument
                    \* (or its list of identifiers)

vars == <<todos, categories, filters, notifications, timers, now, nextId,
          exported, persisted, dateFns, call, steps, last>>

-----------------------------------------------------------------------------
(* Bound of the model: the number of handler calls, timer callbacks and   *)
(* clock ticks in a run                                                   *)

MaxSteps == 3

-----------------------------------------------------------------------------
(* Values *)

Undefined == "undefined"

NoDate == [kind |-> "undefined", ms |-> 0]

DateOf(ms) == [kind |-> "Date", ms |-> ms]

HasDate(d) == d.kind # "undefined"

\* JavaScript truthiness of an optional string: undefined and '' are falsy
Truthy(s) == s # Undefined /\ s # ""

\* obj[key] of an object that may not carry the key
Get(obj, key) == IF key \in DOMAIN obj THEN obj[key] ELSE Undefined

Merge(obj, patch) ==
    [k \in DOMAIN obj \cup DOMAIN patch |->
        IF k \in DOMAIN patch THEN patch[k] ELSE obj[k]]

Indices(s) == 1..Len(s)

Range(s) == {s[i] : i \in Indices(s)}

generateId(n) == "id" \o ToString(n)

defaultCategories ==
    << [id |-> "personal", name |-> "Personal"],
       [id |-> "work",     name |-> "Work"],
       [id |-> "shopping", name |-> "Shopping"],
       [id |-> "health",   name |-> "Health"] >>

defaultFilters == [k \in {"status"} |-> "all"]

-----------------------------------------------------------------------------
(* Getters *)

getTodoById(ts, id) ==
    IF \E i \in Indices(ts) : ts[i].id = id
    THEN << ts[CHOOSE i \in Indices(ts) :
                /\ ts[i].id = id
                /\ \A j \in 1..(i - 1) : ts[j].id # id] >>
    ELSE << >>

getCategoryById(cs, id) ==
    IF \E i \in Indices(cs) : cs[i].id = id
    THEN << cs[CHOOSE i \in Indices(cs) :
                /\ cs[i].id = id
                /\ \A j \in 1..(i - 1) : cs[j].id # id] >>
    ELSE << >>

-----------------------------------------------------------------------------
(* Notification queue: addNotification, removeNotification *)

NoDuration == [present |-> FALSE, ms |-> 0]

Ms(n) == [present |-> TRUE, ms |-> n]

DefaultDuration == 5000

\* notification.duration || 5000
DurationOrDefault(d) ==
    IF d.present /\ d.ms # 0 THEN d.ms ELSE DefaultDuration

\* The object addNotification builds: { id, ...notification, duration }
NewNotification(n, id) ==
    [id |-> id, type |-> n.type, title |-> n.title, message |-> n.message,
     duration |-> DurationOrDefault(n.duration), persistent |-> n.persistent]

\* SchedulesTimer with a slip: the duration of the argument is tested, not
\* the defaulted one.
SchedulesTimerIfGiven(n, made) ==
    ~n.persistent /\ n.duration.present /\ n.duration.ms # 0

\* if (!notification.persistent && newNotification.duration) setTimeout(...)
SchedulesTimer(n, made) == ~n.persistent /\ made.duration # 0

\* The argument the store's own handlers pass to addNotification
Note(type, title, message, duration) ==
    [type |-> type, title |-> title, message |-> message,
     duration |-> Ms(duration), persistent |-> FALSE]

\* get().addNotification(ns[1]); get().addNotification(ns[2]); ... on top of
\* the list `base`, the first generateId() call returning number firstId.
Emit(base, firstId, ns) ==
    LET made == [i \in Indices(ns) |->
                    NewNotification(ns[i], generateId(firstId + i - 1))]
    IN  /\ notifications' = base \o made
        /\ timers' = timers \cup
              {made[i].id : i \in {j \in Indices(ns) : SchedulesTimer(ns[j], made[j])}}
        /\ nextId' = firstId + Len(ns)

\* removeNotificationFrom with a slip: an identifier that is not in the list
\* removes the oldest notification.
removeNotificationOrOldest(ns, id) ==
    IF \E i \in Indices(ns) : ns[i].id = id
    THEN SelectSeq(ns, LAMBDA notif : notif.id # id)
    ELSE SubSeq(ns, 2, Len(ns))

\* removeNotificationFrom with a slip: the notifications added after the
\* one removed go with it.
removeNotificationAndNewer(ns, id) ==
    IF \E i \in Indices(ns) : ns[i].id = id
    THEN SubSeq(ns, 1, (CHOOSE i \in Indices(ns) : ns[i].id = id) - 1)
    ELSE ns

removeNotificationFrom(ns, id) == SelectSeq(ns, LAMBDA notif : notif.id # id)

-----------------------------------------------------------------------------
(* Item handlers as functions of the collection *)

\* The clock read made for element i of a map() when the clock, which shows
\* t0 at the start, advances by one after element k.
ClockAt(t0, k, i) == IF i > k THEN t0 + 1 ELSE t0

\* The places where the clock may advance inside a map() over ts whose
\* callback reads the clock for the elements `hit`: after a hit element that
\* is followed by another one (anywhere else the result is that of a Tick
\* before or after the handler), or not at all (k = Len(ts)).
TickPoints(ts, hit) ==
    {Len(ts)} \cup
    {k \in hit : \E j \in hit : j > k}

ClockAfter(ts, k) == IF k < Len(ts) THEN now + 1 ELSE now

\* todoData.dueDate || undefined
DueDateOf(todoData) ==
    IF "dueDate" \in DOMAIN todoData THEN todoData.dueDate ELSE NoDate

\* { id, ...todoData, completed: false, createdAt, updatedAt, dueDate }
NewTodo(id, todoData, t1, t2) ==
    Merge(Merge([id |-> id], todoData),
          [completed |-> FALSE, createdAt |-> DateOf(t1),
           updatedAt |-> DateOf(t2), dueDate |-> DueDateOf(todoData)])

\* updateTodoMap with a slip: updatedAt is not stamped.
updateTodoMapNoStamp(ts, id, updates, t0, k) ==
    [i \in Indices(ts) |->
        IF ts[i].id = id THEN Merge(ts[i], updates) ELSE ts[i]]

\* updateTodoMap with a slip: the identifier is not compared.
updateTodoMapAll(ts, id, updates, t0, k) ==
    [i \in Indices(ts) |->
        Merge(Merge(ts[i], updates), [updatedAt |-> DateOf(ClockAt(t0, k, i))])]

\* state.todos.map(todo => todo.id === id ? {...todo, ...updates, updatedAt} : todo)
updateTodoMap(ts, id, updates, t0, k) ==
    [i \in Indices(ts) |->
        IF ts[i].id = id
        THEN Merge(Merge(ts[i], updates), [updatedAt |-> DateOf(ClockAt(t0, k, i))])
        ELSE ts[i]]

\* state.todos.map(todo => ids.includes(todo.id) ? {...} : todo)
bulkUpdateMap(ts, ids, updates, t0, k) ==
    [i \in Indices(ts) |->
        IF ts[i].id \in Range(ids)
        THEN Merge(Merge(ts[i], updates), [updatedAt |-> DateOf(ClockAt(t0, k, i))])
        ELSE ts[i]]

\* state.todos.filter(todo => todo.id !== id)
deleteTodoFilter(ts, id) == SelectSeq(ts, LAMBDA todo : todo.id # id)

\* bulkDeleteFilter with a slip: only the first of the ids is looked at.
bulkDeleteFilterFirst(ts, ids) == SelectSeq(ts, LAMBDA todo : todo.id # ids[1])

\* state.todos.filter(todo => !ids.includes(todo.id))
bulkDeleteFilter(ts, ids) == SelectSeq(ts, LAMBDA todo : todo.id \notin Range(ids))

\* toggleTodo: updateTodo(id, { completed: !todo.completed })
toggleUpdates(todo) == [completed |-> ~todo.completed]

\* The collection after toggleTodo(id)
toggleTodoMap(ts, id, t0, k) ==
    IF getTodoById(ts, id) = << >>
    THEN ts
    ELSE updateTodoMap(ts, id, toggleUpdates(getTodoById(ts, id)[1]), t0, k)

\* duplicatedTodo with a slip: the title is copied without the suffix.
duplicatedTodoSameTitle(todo) ==
    [title |-> todo.title, description |-> todo.description,
     priority |-> todo.priority, category |-> todo.category,
     dueDate |-> todo.dueDate, tags |-> todo.tags]

\* The draft duplicateTodo builds from the item it found
duplicatedTodo(todo) ==
    [title |-> todo.title \o " (Copy)", description |-> todo.description,
     priority |-> todo.priority, category |-> todo.category,
     dueDate |-> todo.dueDate, tags |-> todo.tags]

\* deleteCategory's two maps
deleteCategoryFilter(cs, id) == SelectSeq(cs, LAMBDA cat : cat.id # id)

deleteCategoryMap(ts, id, t0, k) ==
    [i \in Indices(ts) |->
        IF ts[i].category = id
        THEN Merge(ts[i], [category |-> "personal",
                           updatedAt |-> DateOf(ClockAt(t0, k, i))])
        ELSE ts[i]]

Quoted(s) == "\"" \o s \o "\""

-----------------------------------------------------------------------------
(* JSON documents: exportData, and the text importData is given *)

\* Date.prototype.toJSON: a Date becomes its ISO string; JSON.parse does not
\* turn the string back into a Date.
ToJsonDate(d) == IF d.kind = "Date" THEN [kind |-> "string", ms |-> d.ms] ELSE d

ToJsonTodo(todo) ==
    [todo EXCEPT !.createdAt = ToJsonDate(@), !.updatedAt = ToJsonDate(@),
                 !.dueDate = ToJsonDate(@)]

Absent == [kind |-> "absent", items |-> << >>]

ArrayOf(items) == [kind |-> "array", items |-> items]

\* a truthy value that is not an array, such as "x" or { }
NotAnArray == [kind |-> "other", items |-> << >>]

\* A text is modelled by what JSON.parse makes of it: a SyntaxError, null, or
\* an object with (or without) the properties todos and categories.
\* `name` tells the texts apart.
Document(name, value, ts, cs) ==
    [name |-> name, value |-> value, todos |-> ts, categories |-> cs]

\* JSON.stringify({ todos, categories, exportedAt: new Date() }, null, 2);
\* exportedAt is left out: importData never reads it.
exportData(ts, cs) ==
    Document("exported", "object",
             ArrayOf([i \in Indices(ts) |-> ToJsonTodo(ts[i])]),
             ArrayOf(cs))

Unparseable == Document("not json", "SyntaxError", Absent, Absent)

NullDocument == Document("null", "null", Absent, Absent)

\* JSON.parse("5") is the number 5: data.todos is undefined, nothing throws
NumberDocument == Document("5", "number", Absent, Absent)

EmptyObject == Document("{}", "object", Absent, Absent)

MismatchedObject ==
    Document("{todos:1,categories:{}}", "object", NotAnArray, NotAnArray)

\* A hand-written document: two items in a category the store does not have,
\* and one category whose id the store already uses.
ForeignDocument ==
    Document("foreign", "object",
             ArrayOf(<< [id |-> "ext1", title |-> "Trip", description |-> Undefined,
                         completed |-> TRUE, priority |-> "low",
                         category |-> "travel",
                         dueDate |-> [kind |-> "string", ms |-> 0],
                         createdAt |-> [kind |-> "string", ms |-> 0],
                         updatedAt |-> [kind |-> "string", ms |-> 0],
                         tags |-> << "x" >>],
                        [id |-> "ext2", title |-> "Visa", description |-> "Trip papers",
                         completed |-> FALSE, priority |-> "high",
                         category |-> "travel",
                         dueDate |-> [kind |-> "string", ms |-> 0],
                         createdAt |-> [kind |-> "string", ms |-> 0],
                         updatedAt |-> [kind |-> "string", ms |-> 0],
                         tags |-> << >>] >>),
             ArrayOf(<< [id |-> "work", name |-> "Office"] >>))

\* JSON.parse(dataString) throws, or data.todos throws because data is null
ImportThrows(doc) == doc.value \in {"SyntaxError", "null"}

\* importTodos with a slip: the incoming items replace the collection.
importTodosReplace(ts, doc) ==
    IF doc.todos.kind = "array" THEN doc.todos.items ELSE ts

\* if (data.todos && Array.isArray(data.todos)) [...state.todos, ...data.todos]
importTodos(ts, doc) ==
    IF doc.todos.kind = "array" THEN ts \o doc.todos.items ELSE ts

importCategories(cs, doc) ==
    IF doc.categories.kind = "array" THEN cs \o doc.categories.items ELSE cs

-----------------------------------------------------------------------------
(* The persist middleware *)

\* partialize with a slip: the notifications are saved too.
partializeEverything(ts, cs, fs) ==
    [todos |-> ts, categories |-> cs, filters |-> fs,
     notifications |-> notifications]

\* partialize: state => ({ todos, categories, filters })
partialize(ts, cs, fs) == [todos |-> ts, categories |-> cs, filters |-> fs]

\* JSON.stringify of the partial state: the Dates become strings
ToJsonState(state) ==
    [state EXCEPT !.todos = [i \in Indices(@) |-> ToJsonTodo(@[i])]]

\* storage.setItem('todo-store', { state: partialize(state), version: 0 })
setItem(ts, cs, fs) ==
    [present |-> TRUE, state |-> ToJsonState(partialize(ts, cs, fs)),
     version |-> 0]

\* The storage has no entry 'todo-store'
NothingSaved == [present |-> FALSE, state |-> << >>, version |-> 0]

-----------------------------------------------------------------------------
(* Query helpers: sortTodos, filterTodos, calculateTodoStats *)

getPriorityValue(priority) ==
    CASE priority = "low" -> 1
      [] priority = "medium" -> 2
      [] priority = "high" -> 3
      [] priority = "urgent" -> 4

\* String.prototype.localeCompare on the titles the model uses: their place
\* in the collation order.
Collation == << "A", "A (Copy)", "B", "C", "Trip" >>

CollationRank(title) == CHOOSE i \in Indices(Collation) : Collation[i] = title

localeCompare(a, b) == CollationRank(a) - CollationRank(b)

\* comparison with a slip: priorities are compared lower rank first.
comparisonLowFirst(a, b, sortBy) ==
    CASE sortBy = "createdAt" -> a.createdAt.ms - b.createdAt.ms
      [] sortBy = "dueDate" ->
            IF ~HasDate(a.dueDate) /\ ~HasDate(b.dueDate) THEN 0
            ELSE IF ~HasDate(a.dueDate) THEN 1
            ELSE IF ~HasDate(b.dueDate) THEN 0 - 1
            ELSE a.dueDate.ms - b.dueDate.ms
      [] sortBy = "priority" ->
            getPriorityValue(a.priority) - getPriorityValue(b.priority)
      [] sortBy = "title" -> localeCompare(a.title, b.title)

\* The body of the comparator of sortTodos, before the direction is applied;
\* a and b carry Dates (getTime() of a string throws).
comparison(a, b, sortBy) ==
    CASE sortBy = "createdAt" -> a.createdAt.ms - b.createdAt.ms
      [] sortBy = "dueDate" ->
            IF ~HasDate(a.dueDate) /\ ~HasDate(b.dueDate) THEN 0
            ELSE IF ~HasDate(a.dueDate) THEN 1
            ELSE IF ~HasDate(b.dueDate) THEN 0 - 1
            ELSE a.dueDate.ms - b.dueDate.ms
      [] sortBy = "priority" ->
            getPriorityValue(b.priority) - getPriorityValue(a.priority)
      [] sortBy = "title" -> localeCompare(a.title, b.title)

\* compareTodos with a slip: the direction is ignored.
compareTodosOneWay(a, b, sortBy, sortOrder) == comparison(a, b, sortBy)

\* return sortOrder === 'asc' ? comparison : -comparison
compareTodos(a, b, sortBy, sortOrder) ==
    IF sortOrder = "asc" THEN comparison(a, b, sortBy)
                         ELSE 0 - comparison(a, b, sortBy)

\* InsertStable with a slip: x goes in front of the first element that does
\* not compare less than x, so equal elements change places.
InsertBeforeEqual(sorted, x, sortBy, sortOrder) ==
    LET notLess == {i \in Indices(sorted) :
                       compareTodos(sorted[i], x, sortBy, sortOrder) >= 0}
        pos == IF notLess = {} THEN Len(sorted) + 1
               ELSE CHOOSE i \in notLess : \A j \in notLess : i <= j
    IN  SubSeq(sorted, 1, pos - 1) \o << x >> \o SubSeq(sorted, pos, Len(sorted))

\* Array.prototype.sort is a stable sort: x goes in front of the first element
\* that compares greater than x.
InsertStable(sorted, x, sortBy, sortOrder) ==
    LET greater == {i \in Indices(sorted) :
                       compareTodos(sorted[i], x, sortBy, sortOrder) > 0}
        pos == IF greater = {} THEN Len(sorted) + 1
               ELSE CHOOSE i \in greater : \A j \in greater : i <= j
    IN  SubSeq(sorted, 1, pos - 1) \o << x >> \o SubSeq(sorted, pos, Len(sorted))

RECURSIVE SortPrefix(_, _, _, _)
SortPrefix(ts, n, sortBy, sortOrder) ==
    IF n = 0 THEN << >>
    ELSE InsertStable(SortPrefix(ts, n - 1, sortBy, sortOrder), ts[n],
                      sortBy, sortOrder)

\* sortOrder: 'asc' | 'desc' = 'asc': a call without the third argument
\* (sortOrder = Undefined) sorts ascending.
sortTodos(ts, sortBy, sortOrder) ==
    SortPrefix(ts, Len(ts), sortBy,
               IF sortOrder = Undefined THEN "asc" ELSE sortOrder)

\* String.prototype.toLowerCase, letter by letter
UpperCaseLetters == "ABCDEFGHIJKLMNOPQRSTUVWXYZ"

LowerCaseLetters == "abcdefghijklmnopqrstuvwxyz"

CharAt(s, i) == SubSeq(s, i, i)

LowerChar(c) ==
    IF \E i \in 1..Len(UpperCaseLetters) : CharAt(UpperCaseLetters, i) = c
    THEN CharAt(LowerCaseLetters,
                CHOOSE i \in 1..Len(UpperCaseLetters) : CharAt(UpperCaseLetters, i) = c)
    ELSE c

RECURSIVE toLowerCase(_)
toLowerCase(s) ==
    IF s = "" THEN ""
    ELSE LowerChar(CharAt(s, 1)) \o toLowerCase(SubSeq(s, 2, Len(s)))

\* String.prototype.includes
includes(s, sub) ==
    \E i \in 0..(Len(s) - Len(sub)) : SubSeq(s, i + 1, i + Len(sub)) = sub

\* passesFilter with a slip: a filter without a status lets nothing through.
passesFilterClosed(todo, filter) ==
    /\ Get(filter, "status") \in {"all", "active", "completed"}
    /\ ~(Get(filter, "status") = "active" /\ todo.completed)
    /\ ~(Get(filter, "status") = "completed" /\ ~todo.completed)
    /\ ~(Truthy(Get(filter, "priority")) /\ todo.priority # Get(filter, "priority"))
    /\ ~(Truthy(Get(filter, "category")) /\ todo.category # Get(filter, "category"))
    /\ ~(Truthy(Get(filter, "tag")) /\ Get(filter, "tag") \notin Range(todo.tags))

\* passesFilter with a slip: the search looks at the title only.
passesFilterTitleOnly(todo, filter) ==
    /\ ~(Get(filter, "status") = "active" /\ todo.completed)
    /\ ~(Get(filter, "status") = "completed" /\ ~todo.completed)
    /\ ~(Truthy(Get(filter, "priority")) /\ todo.priority # Get(filter, "priority"))
    /\ ~(Truthy(Get(filter, "category")) /\ todo.category # Get(filter, "category"))
    /\ (Truthy(Get(filter, "search")) =>
          includes(toLowerCase(todo.title), toLowerCase(Get(filter, "search"))))
    /\ ~(Truthy(Get(filter, "tag")) /\ Get(filter, "tag") \notin Range(todo.tags))

\* The callback of todos.filter in filterTodos: every `return false` is a
\* conjunct that must not fire.
passesFilter(todo, filter) ==
    /\ ~(Get(filter, "status") = "active" /\ todo.completed)
    /\ ~(Get(filter, "status") = "completed" /\ ~todo.completed)
    /\ ~(Truthy(Get(filter, "priority")) /\ todo.priority # Get(filter, "priority"))
    /\ ~(Truthy(Get(filter, "category")) /\ todo.category # Get(filter, "category"))
    /\ (Truthy(Get(filter, "search")) =>
          LET searchLower == toLowerCase(Get(filter, "search"))
              matchesTitle == includes(toLowerCase(todo.title), searchLower)
              \* todo.description?.toLowerCase().includes(searchLower)
              matchesDescription ==
                  /\ todo.description # Undefined
                  /\ includes(toLowerCase(todo.description), searchLower)
          IN  ~(~matchesTitle /\ ~matchesDescription))
    /\ ~(Truthy(Get(filter, "tag")) /\ Get(filter, "tag") \notin Range(todo.tags))

filterTodos(ts, filter) == SelectSeq(ts, LAMBDA todo : passesFilter(todo, filter))

\* getFilteredTodos: filterTodos(todos, filters)
getFilteredTodos == filterTodos(todos, filters)

\* Length of a calendar day in clock units
DayLength == 2

\* toDate(date) of date-fns gives a valid Date
IsValidDate(date) == date.kind = "Date" \/ dateFns = "parses strings"

\* isPast(date): toDate(date) < Date.now(); false for an Invalid Date
isPast(date, t) == IsValidDate(date) /\ date.ms < t

\* isToday(date): same calendar day as Date.now(); false for an Invalid Date
isToday(date, t) ==
    IsValidDate(date) /\ (date.ms \div DayLength) = (t \div DayLength)

\* isOverdue(date) = isPast(date) && !isToday(date), at clock value t
isOverdue(date, t) == isPast(date, t) /\ ~isToday(date, t)

emptyStats(ts) ==
    [total |-> Len(ts), completed |-> 0, pending |-> 0, overdue |-> 0,
     byPriority |-> [p \in {"low", "medium", "high", "urgent"} |-> 0],
     byCategory |-> << >>]

\* countTodo with a slip: the `else` is lost, every item counts as pending.
countTodoNoElse(stats, todo, t) ==
    [stats EXCEPT
        !.completed = IF todo.completed THEN @ + 1 ELSE @,
        !.pending = @ + 1,
        !.overdue = IF /\ HasDate(todo.dueDate)
                       /\ isOverdue(todo.dueDate, t)
                    THEN @ + 1 ELSE @,
        !.byPriority = [@ EXCEPT ![todo.priority] = @ + 1],
        !.byCategory =
            Merge(@, [c \in {todo.category} |->
                        IF c \in DOMAIN @ THEN @[c] + 1 ELSE 1])]

\* The body of todos.forEach in calculateTodoStats
countTodo(stats, todo, t) ==
    [stats EXCEPT
        !.completed = IF todo.completed THEN @ + 1 ELSE @,
        !.pending = IF todo.completed THEN @ ELSE @ + 1,
        !.overdue = IF /\ ~todo.completed
                       /\ HasDate(todo.dueDate)
                       /\ isOverdue(todo.dueDate, t)
                    THEN @ + 1 ELSE @,
        !.byPriority = [@ EXCEPT ![todo.priority] = @ + 1],
        !.byCategory =
            Merge(@, [c \in {todo.category} |->
                        IF c \in DOMAIN @ THEN @[c] + 1 ELSE 1])]

RECURSIVE StatsPrefix(_, _, _)
StatsPrefix(ts, n, t) ==
    IF n = 0 THEN emptyStats(ts)
    ELSE countTodo(StatsPrefix(ts, n - 1, t), ts[n], t)

calculateTodoStats(ts, t) == StatsPrefix(ts, Len(ts), t)

\* getTodoStats: calculateTodoStats(get().todos)
getTodoStats == calculateTodoStats(todos, now)

-----------------------------------------------------------------------------
(* Inputs the model feeds the handlers *)

Drafts ==
    { [title |-> "A", description |-> Undefined, priority |-> "medium",
       category |-> "personal", dueDate |-> NoDate, tags |-> << >>],
      [title |-> "B", description |-> "milk", priority |-> "urgent",
       category |-> "work", dueDate |-> DateOf(1), tags |-> << "x" >>] }

Updates == { [title |-> "C", priority |-> "high"] }

TodoIds == {todos[i].id : i \in Indices(todos)}

IdArgs == TodoIds \cup {"nope"}

IdLists == {<< a, "nope" >> : a \in IdArgs}
              \cup {<< todos[1].id, todos[i].id >> : i \in 2..Len(todos)}

WithId(ts, id) == {i \in Indices(ts) : ts[i].id = id}

WithIdIn(ts, ids) == {i \in Indices(ts) : ts[i].id \in Range(ids)}

WithCategory(ts, id) == {i \in Indices(ts) : ts[i].category = id}

\* "travel" is the category of the items of ForeignDocument
CategoryArgs == {"personal", "work", "travel", "nope"}

ClockReads == {now, now + 1}

CategoryDrafts == { [name |-> "Errands"] }

CategoryUpdates == { [name |-> "Renamed"] }

\* Partial filters the list view passes: {}, { priority } and { status }
FilterPatches ==
    { << >>, [priority |-> "urgent"], [status |-> "active"] }

\* Arguments of a direct addNotification call
PlainArgs ==
    [type |-> "info", title |-> "Note", message |-> Undefined,
     duration |-> NoDuration, persistent |-> FALSE]

ZeroDurationArgs ==
    [type |-> "info", title |-> "Sticky", message |-> Undefined,
     duration |-> Ms(0), persistent |-> FALSE]

PersistentArgs ==
    [type |-> "warning", title |-> "Pinned", message |-> Undefined,
     duration |-> Ms(1000), persistent |-> TRUE]

NotificationArgs == {PlainArgs, ZeroDurationArgs, PersistentArgs}

NotificationIds == {notifications[i].id : i \in Indices(notifications)}

\* Identifiers removeNotification is called with: those in the list, those
\* whose timer is still pending (in the list or already removed), and one
\* that was never given out
RemovableIds == NotificationIds \cup timers \cup {"nope"}

ImportTexts ==
    Range(exported) \cup
    {Unparseable, NullDocument, NumberDocument, EmptyObject, MismatchedObject,
     ForeignDocument}

\* Every set() makes the persist middleware write the entry anew.
Saved == persisted' = setItem(todos', categories', filters')

\* The run is cut after MaxSteps handler calls, timer callbacks and ticks.
CanStep == steps < MaxSteps

Done(op, id) ==
    /\ steps' = steps + 1
    /\ last' = [op |-> op, id |-> id, ids |-> << >>]
    /\ UNCHANGED <<call, dateFns>>

\* ... or with its partial object
DoneWith(op, patch) ==
    /\ steps' = steps + 1
    /\ last' = [op |-> op, id |-> Undefined, ids |-> << >>, patch |-> patch]
    /\ UNCHANGED <<call, dateFns>>

DoneBulk(op, ids) ==
    /\ steps' = steps + 1
    /\ last' = [op |-> op, id |-> Undefined, ids |-> ids]
    /\ UNCHANGED <<call, dateFns>>

-----------------------------------------------------------------------------
(* Store handlers *)

NoCall == [fn |-> "none", input |-> << >>, sortBy |-> Undefined,
           sortOrder |-> Undefined, filter |-> << >>, output |-> << >>]

StoreInit ==
    /\ todos = << >>
    /\ categories = defaultCategories
    /\ filters = defaultFilters
    /\ notifications = << >>
    /\ timers = {}
    /\ now = 0
    /\ nextId = 1
    /\ exported = << >>
    \* a first run: nothing was saved before; hydration ends with a write of
    \* the initial state in zustand up to 4.x and without one in 5.x
    /\ persisted \in {NothingSaved,
                      setItem(<< >>, defaultCategories, defaultFilters)}
    /\ dateFns \in {"parses strings", "rejects strings"}
    /\ steps = 0
    /\ last = [op |-> "init", id |-> Undefined, ids |-> << >>]

Init == StoreInit /\ call = NoCall

\* addTodo without the bookkeeping of `last`; duplicateTodo calls it too.
\* createdAt and updatedAt are two reads of the clock, t1 = now and t2.
addTodo(todoData, t2) ==
    /\ todos' = Append(todos, NewTodo(generateId(nextId), todoData, now, t2))
    /\ now' = t2
    /\ Emit(notifications, nextId + 1,
            << Note("success", "Todo created",
                    Quoted(todoData.title) \o " has been added to your list",
                    3000) >>)
    /\ UNCHANGED <<categories, filters, exported>>
    /\ Saved

AddTodo ==
    CanStep /\
    \E todoData \in Drafts, t2 \in ClockReads :
        /\ addTodo(todoData, t2)
        /\ Done("addTodo", generateId(nextId))

\* updateTodo without the bookkeeping of `last`; toggleTodo calls it and then
\* adds the notifications `more`.
updateTodo(id, updates, k, more) ==
    LET after == updateTodoMap(todos, id, updates, now, k)
        found == getTodoById(after, id)
    IN  /\ todos' = after
        /\ now' = ClockAfter(todos, k)
        /\ Emit(notifications, nextId,
                (IF found # << >>
                 THEN << Note("success", "Todo updated",
                              Quoted(found[1].title) \o " has been updated",
                              2000) >>
                 ELSE << >>) \o more)
        /\ UNCHANGED <<categories, filters, exported>>
        /\ Saved

UpdateTodo ==
    CanStep /\
    \E id \in IdArgs, updates \in Updates :
      \E k \in TickPoints(todos, WithId(todos, id)) :
        /\ updateTodo(id, updates, k, << >>)
        /\ Done("updateTodo", id)

DeleteTodo ==
    CanStep /\
    \E id \in IdArgs :
        LET todo == getTodoById(todos, id)
        IN  /\ todos' = deleteTodoFilter(todos, id)
            /\ Emit(notifications, nextId,
                    IF todo # << >>
                    THEN << Note("success", "Todo deleted",
                                 Quoted(todo[1].title) \o " has been removed",
                                 2000) >>
                    ELSE << >>)
            /\ Done("deleteTodo", id)
            /\ UNCHANGED <<categories, filters, now, exported>>
            /\ Saved

ToggleTodo ==
    CanStep /\
    \E id \in IdArgs :
      \E k \in TickPoints(todos, WithId(todos, id)) :
        LET todo == getTodoById(todos, id)
        IN  /\ IF todo = << >>
               THEN UNCHANGED <<todos, categories, filters, notifications,
                                timers, now, nextId, exported, persisted>>
               ELSE LET newCompletedState == ~todo[1].completed
                    IN  updateTodo(id, toggleUpdates(todo[1]), k,
                           << Note("success",
                                   IF newCompletedState THEN "Todo completed"
                                                        ELSE "Todo reopened",
                                   Quoted(todo[1].title) \o " marked as " \o
                                     (IF newCompletedState THEN "completed"
                                                           ELSE "pending"),
                                   2000) >>)
            /\ Done("toggleTodo", id)

DuplicateTodo ==
    CanStep /\
    \E id \in IdArgs, t2 \in ClockReads :
        LET todo == getTodoById(todos, id)
        IN  /\ IF todo = << >>
               THEN UNCHANGED <<todos, categories, filters, notifications,
                                timers, now, nextId, exported, persisted>>
               ELSE addTodo(duplicatedTodo(todo[1]), t2)
            /\ Done("duplicateTodo", id)

BulkDeleteTodos ==
    CanStep /\
    \E ids \in IdLists :
        /\ todos' = bulkDeleteFilter(todos, ids)
        /\ Emit(notifications, nextId,
                << Note("success", "Todos deleted",
                        ToString(Len(ids)) \o " todo(s) have been deleted",
                        2000) >>)
        /\ DoneBulk("bulkDeleteTodos", ids)
        /\ UNCHANGED <<categories, filters, now, exported>>
        /\ Saved

BulkUpdateTodos ==
    CanStep /\
    \E ids \in IdLists, updates \in Updates :
      \E k \in TickPoints(todos, WithIdIn(todos, ids)) :
        /\ todos' = bulkUpdateMap(todos, ids, updates, now, k)
        /\ now' = ClockAfter(todos, k)
        /\ Emit(notifications, nextId,
                << Note("success", "Todos updated",
                        ToString(Len(ids)) \o " todo(s) have been updated",
                        2000) >>)
        /\ DoneBulk("bulkUpdateTodos", ids)
        /\ UNCHANGED <<categories, filters, exported>>
        /\ Saved

-----------------------------------------------------------------------------
(* Category handlers *)

AddCategory ==
    CanStep /\
    \E categoryData \in CategoryDrafts :
        /\ categories' = Append(categories,
                                Merge([id |-> generateId(nextId)], categoryData))
        /\ Emit(notifications, nextId + 1,
                << Note("success", "Category created",
                        Quoted(categoryData.name) \o " category has been added",
                        2000) >>)
        /\ Done("addCategory", generateId(nextId))
        /\ UNCHANGED <<todos, filters, now, exported>>
        /\ Saved

UpdateCategory ==
    CanStep /\
    \E id \in {"work", "nope"}, updates \in CategoryUpdates :
        /\ categories' = [i \in Indices(categories) |->
                             IF categories[i].id = id
                             THEN Merge(categories[i], updates)
                             ELSE categories[i]]
        /\ Done("updateCategory", id)
        /\ UNCHANGED <<todos, filters, notifications, timers, now, nextId,
                       exported>>
        /\ Saved

DeleteCategory ==
    CanStep /\
    \E id \in CategoryArgs :
      \E k \in TickPoints(todos, WithCategory(todos, id)) :
        LET category == getCategoryById(categories, id)
        IN  /\ categories' = deleteCategoryFilter(categories, id)
            /\ todos' = deleteCategoryMap(todos, id, now, k)
            /\ now' = ClockAfter(todos, k)
            /\ Emit(notifications, nextId,
                    IF category # << >>
                    THEN << Note("warning", "Category deleted",
                                 Quoted(category[1].name) \o
                                 " category has been removed. Todos moved to Personal.",
                                 3000) >>
                    ELSE << >>)
            /\ Done("deleteCategory", id)
            /\ UNCHANGED <<filters, exported>>
            /\ Saved

-----------------------------------------------------------------------------
(* Filter handlers *)

\* SetFilter with a slip: the partial filter replaces the filter.
SetFilterReplaces ==
    CanStep /\
    \E filter \in FilterPatches :
        /\ filters' = filter
        /\ DoneWith("setFilter", filter)
        /\ UNCHANGED <<todos, categories, notifications, timers, now, nextId,
                       exported>>
        /\ Saved

SetFilter ==
    CanStep /\
    \E filter \in FilterPatches :
        /\ filters' = Merge(filters, filter)
        /\ DoneWith("setFilter", filter)
        /\ UNCHANGED <<todos, categories, notifications, timers, now, nextId,
                       exported>>
        /\ Saved

ClearFilters ==
    /\ CanStep
    /\ filters' = defaultFilters
    /\ Done("clearFilters", Undefined)
    /\ UNCHANGED <<todos, categories, notifications, timers, now, nextId,
                   exported>>
    /\ Saved

-----------------------------------------------------------------------------
(* Notification handlers and the timer callback *)

AddNotification ==
    CanStep /\
    \E notification \in NotificationArgs :
        /\ Emit(notifications, nextId, << notification >>)
        /\ Done("addNotification", generateId(nextId))
        /\ UNCHANGED <<todos, categories, filters, now, exported>>
        /\ Saved

RemoveNotification ==
    CanStep /\
    \E id \in RemovableIds :
        /\ notifications' = removeNotificationFrom(notifications, id)
        /\ Done("removeNotification", id)
        /\ UNCHANGED <<todos, categories, filters, timers, now, nextId, exported>>
        /\ Saved

ClearNotifications ==
    /\ CanStep
    /\ notifications' = << >>
    /\ Done("clearNotifications", Undefined)
    /\ UNCHANGED <<todos, categories, filters, timers, now, nextId, exported>>
    /\ Saved

\* setTimeout(() => get().removeNotification(newNotification.id), duration)
TimerFire ==
    CanStep /\
    \E id \in timers :
        /\ notifications' = removeNotificationFrom(notifications, id)
        /\ timers' = timers \ {id}
        /\ Done("timer", id)
        /\ UNCHANGED <<todos, categories, filters, now, nextId, exported>>
        /\ Saved

-----------------------------------------------------------------------------
(* Utility handlers *)

ExportData ==
    /\ CanStep
    /\ exported' = << exportData(todos, categories) >>
    /\ Done("exportData", Undefined)
    /\ UNCHANGED <<todos, categories, filters, notifications, timers, now,
                   nextId, persisted>>

ImportData ==
    CanStep /\
    \E doc \in ImportTexts :
        /\ IF ImportThrows(doc)
           THEN /\ UNCHANGED <<todos, categories>>
                /\ Emit(notifications, nextId,
                        << Note("error", "Import failed",
                                "Failed to import data. Please check the file format.",
                                5000) >>)
           ELSE /\ todos' = importTodos(todos, doc)
                /\ categories' = importCategories(categories, doc)
                /\ Emit(notifications, nextId,
                        << Note("success", "Data imported",
                                "Your data has been successfully imported",
                                3000) >>)
        /\ Done("importData", doc.name)
        /\ UNCHANGED <<filters, now, exported>>
        /\ Saved

\* ClearAllData with a slip: the categories are not reset.
ClearAllDataKeepsCategories ==
    /\ CanStep
    /\ todos' = << >>
    /\ filters' = defaultFilters
    /\ Emit(<< >>, nextId,
            << Note("success", "Data cleared",
                    "All data has been cleared successfully", 3000) >>)
    /\ Done("clearAllData", Undefined)
    /\ UNCHANGED <<now, exported, categories>>
    /\ Saved

\* ClearAllData with a slip: the notifications are not emptied.
ClearAllDataKeepsNotifications ==
    /\ CanStep
    /\ todos' = << >>
    /\ categories' = defaultCategories
    /\ filters' = defaultFilters
    /\ Emit(notifications, nextId,
            << Note("success", "Data cleared",
                    "All data has been cleared successfully", 3000) >>)
    /\ Done("clearAllData", Undefined)
    /\ UNCHANGED <<now, exported>>
    /\ Saved

ClearAllData ==
    /\ CanStep
    /\ todos' = << >>
    /\ categories' = defaultCategories
    /\ filters' = defaultFilters
    /\ Emit(<< >>, nextId,
            << Note("success", "Data cleared",
                    "All data has been cleared successfully", 3000) >>)
    /\ Done("clearAllData", Undefined)
    /\ UNCHANGED <<now, exported>>
    /\ Saved

\* Time passes between two events
Tick ==
    /\ CanStep
    /\ now' = now + 1
    /\ Done("tick", Undefined)
    /\ UNCHANGED <<todos, categories, filters, notifications, timers, nextId,
                   exported, persisted>>

Next ==
    \/ AddTodo
    \/ UpdateTodo
    \/ DeleteTodo
    \/ ToggleTodo
    \/ DuplicateTodo
    \/ BulkDeleteTodos
    \/ BulkUpdateTodos
    \/ AddCategory
    \/ UpdateCategory
    \/ DeleteCategory
    \/ SetFilter
    \/ ClearFilters
    \/ AddNotification
    \/ RemoveNotification
    \/ ClearNotifications
    \/ TimerFire
    \/ ExportData
    \/ ImportData
    \/ ClearAllData
    \/ Tick

Spec == Init /\ [][Next]_vars

-----------------------------------------------------------------------------
(* The store with timers that fire: after the MaxSteps handler calls of a  *)
(* run the pending setTimeout callbacks still run, each once.              *)

\* The setTimeout callback, outside the budget of handler calls
TimerElapses ==
    \E id \in timers :
        /\ notifications' = removeNotificationFrom(notifications, id)
        /\ timers' = timers \ {id}
        /\ last' = [op |-> "timer", id |-> id, ids |-> << >>]
        /\ UNCHANGED <<todos, categories, filters, now, nextId, exported,
                       dateFns, call, steps>>
        /\ Saved

\* The notifications depend neither on the storage found at the start nor
\* on date-fns: one build.
LiveInit ==
    /\ Init
    /\ persisted = NothingSaved
    /\ dateFns = "parses strings"

LiveNext ==
    \/ AddTodo
    \/ UpdateTodo
    \/ DeleteTodo
    \/ ToggleTodo
    \/ DuplicateTodo
    \/ BulkDeleteTodos
    \/ BulkUpdateTodos
    \/ AddCategory
    \/ UpdateCategory
    \/ DeleteCategory
    \/ SetFilter
    \/ ClearFilters
    \/ AddNotification
    \/ RemoveNotification
    \/ ClearNotifications
    \/ ExportData
    \/ ImportData
    \/ ClearAllData
    \/ Tick
    \/ TimerElapses

\* A timer that was set fires: the event loop runs every due callback.
LiveSpec == LiveInit /\ [][LiveNext]_vars /\ WF_vars(TimerElapses)

-----------------------------------------------------------------------------
(* The query helpers on their own: a list of items is drawn, then sorted  *)
(* or filtered                                                             *)

MaxLen == 3

\* Items that differ in the sort keys and in what the filters look at; two
\* have no due date, two have no description.
SortItems ==
    { [id |-> "s1", title |-> "B", description |-> Undefined,
       completed |-> FALSE, priority |-> "low", category |-> "personal",
       dueDate |-> NoDate, createdAt |-> DateOf(0), updatedAt |-> DateOf(0),
       tags |-> << >>],
      [id |-> "s2", title |-> "A", description |-> "Buy milk",
       completed |-> TRUE, priority |-> "urgent", category |-> "work",
       dueDate |-> DateOf(3), createdAt |-> DateOf(1), updatedAt |-> DateOf(1),
       tags |-> << "x" >>],
      [id |-> "s3", title |-> "C", description |-> "",
       completed |-> FALSE, priority |-> "high", category |-> "work",
       dueDate |-> DateOf(1), createdAt |-> DateOf(2), updatedAt |-> DateOf(2),
       tags |-> << "y", "x" >>],
      [id |-> "s4", title |-> "A", description |-> Undefined,
       completed |-> FALSE, priority |-> "low", category |-> "health",
       dueDate |-> NoDate, createdAt |-> DateOf(3), updatedAt |-> DateOf(3),
       tags |-> << >>] }

ItemLists == UNION {[1..n -> SortItems] : n \in 0..MaxLen}

SortKeys == {"createdAt", "dueDate", "priority", "title"}

SortOrders == {"asc", "desc", Undefined}

\* The query helpers read neither the storage nor isOverdue: one build.
QueryInit ==
    /\ StoreInit
    /\ persisted = NothingSaved
    /\ dateFns = "parses strings"
    /\ \E input \in ItemLists : call = [NoCall EXCEPT !.input = input]

\* One call is made on the list that was drawn.
SortTodos ==
    call.fn = "none" /\
    \E sortBy \in SortKeys, sortOrder \in SortOrders :
        /\ call' = [fn |-> "sortTodos", input |-> call.input,
                    sortBy |-> sortBy, sortOrder |-> sortOrder,
                    filter |-> << >>,
                    output |-> sortTodos(call.input, sortBy, sortOrder)]
        /\ UNCHANGED <<todos, categories, filters, notifications, timers, now,
                       nextId, exported, dateFns, steps, last, persisted>>

\* Filter specs: each criterion absent, empty, or given
FilterSpecs ==
    LET Choices(key, values) ==
            {<< >>} \cup {[k \in {key} |-> v] : v \in values}
    IN  { Merge(Merge(Merge(Merge(st, pr), ca), se), tg) :
            st \in Choices("status", {"all", "active", "completed"}),
            pr \in Choices("priority", {"", "low", "urgent"}),
            ca \in Choices("category", {"", "work"}),
            se \in Choices("search", {"", "a", "MILK", "un"}),
            tg \in Choices("tag", {"", "x"}) }

FilterTodos ==
    call.fn = "none" /\
    \E filter \in FilterSpecs :
        /\ call' = [fn |-> "filterTodos", input |-> call.input,
                    sortBy |-> Undefined, sortOrder |-> Undefined,
                    filter |-> filter,
                    output |-> filterTodos(call.input, filter)]
        /\ UNCHANGED <<todos, categories, filters, notifications, timers, now,
                       nextId, exported, dateFns, steps, last, persisted>>

QueryNext == SortTodos \/ FilterTodos

QuerySpec == QueryInit /\ [][QueryNext]_vars

-----------------------------------------------------------------------------
(* Properties of the store, claim by claim *)

IdsOf(ts) == {ts[i].id : i \in Indices(ts)}

LastOf(s) == s[Len(s)]

\* C1: after deleteCategory(id), for every id including "personal", every
\* item that referenced id references "personal", the category "personal"
\* is still in the category collection, and no item references id.
C1_DeleteCategoryReassigns ==
    [][last'.op = "deleteCategory" =>
        /\ \A i \in Indices(todos) :
              todos[i].category = last'.id => todos'[i].category = "personal"
        /\ \E c \in Range(categories') : c.id = "personal"
        /\ \A i \in Indices(todos') : todos'[i].category # last'.id]_vars

\* C2: importData of a text that parses to an object without the arrays
\* todos and categories leaves the items unchanged and appends exactly one
\* notification, of type "error".
C2_MismatchedImportFails ==
    [][(last'.op = "importData" /\ last'.id \in {EmptyObject.name, MismatchedObject.name}) =>
        /\ todos' = todos
        /\ Len(notifications') = Len(notifications) + 1
        /\ SubSeq(notifications', 1, Len(notifications)) = notifications
        /\ LastOf(notifications').type = "error"]_vars

\* C3: the timer callback never removes a notification that was added with
\* duration 0 or with persistent = true.
C3_TimerSparesPersistent ==
    [][last'.op = "timer" =>
        \A i \in Indices(notifications) :
            (\/ notifications[i].persistent
             \/ notifications[i] = NewNotification(ZeroDurationArgs, notifications[i].id))
            => notifications[i] \in Range(notifications')]_vars

\* C4: in every reachable state no two items have the same identifier.
C4_UniqueIds ==
    \A i, j \in Indices(todos) : i # j => todos[i].id # todos[j].id

\* C5: sortTodos by dueDate puts every item without a due date after every
\* item with one, in both directions.
C5_UndatedLast ==
    (call.fn = "sortTodos" /\ call.sortBy = "dueDate") =>
        \A i, j \in Indices(call.output) :
            (HasDate(call.output[i].dueDate) /\ ~HasDate(call.output[j].dueDate))
            => i < j

\* C6: addTodo(draft) appends one item and changes no other; the new item
\* has an identifier no item had, is found by getTodoById, is not completed,
\* and its createdAt equals its updatedAt.
C6_AddTodoCreates ==
    [][last'.op = "addTodo" =>
        /\ Len(todos') = Len(todos) + 1
        /\ SubSeq(todos', 1, Len(todos)) = todos
        /\ LastOf(todos').id \notin IdsOf(todos)
        /\ getTodoById(todos', LastOf(todos').id) = << LastOf(todos') >>
        /\ LastOf(todos').completed = FALSE
        /\ LastOf(todos').createdAt = LastOf(todos').updatedAt]_vars

\* C7: for every item of the collection, toggleTodo(id) twice gives back the
\* collection it started from, up to updatedAt of the items with that id.
C7_ToggleTwiceRestores ==
    \A id \in IdsOf(todos) :
        LET once == toggleTodoMap(todos, id, now, Len(todos))
            twice == toggleTodoMap(once, id, now, Len(todos))
        IN  /\ Len(twice) = Len(todos)
            /\ \A i \in Indices(todos) :
                  /\ [twice[i] EXCEPT !.updatedAt = todos[i].updatedAt] = todos[i]
                  /\ todos[i].id # id => twice[i] = todos[i]

\* C8: duplicateTodo(id), when getTodoById(id) finds an item (completed or
\* not), appends exactly one item and changes no other; the new item has an
\* identifier no item had, is not completed, its title is the found item's
\* title followed by " (Copy)", and its description, priority, category,
\* due date and tags are the found item's.
C8_DuplicateCopies ==
    [][(last'.op = "duplicateTodo" /\ getTodoById(todos, last'.id) # << >>) =>
        LET original == getTodoById(todos, last'.id)[1]
            copy == LastOf(todos')
        IN  /\ Len(todos') = Len(todos) + 1
            /\ SubSeq(todos', 1, Len(todos)) = todos
            /\ copy.id \notin IdsOf(todos)
            /\ copy.completed = FALSE
            /\ copy.title = original.title \o " (Copy)"
            /\ copy.description = original.description
            /\ copy.priority = original.priority
            /\ copy.category = original.category
            /\ copy.dueDate = original.dueDate
            /\ copy.tags = original.tags]_vars

\* C8 happens: a completed item with tags and a due date has been duplicated.
C8_Witness ==
    /\ last.op = "duplicateTodo"
    /\ Len(todos) >= 2
    /\ \E i \in 1..(Len(todos) - 1) :
          /\ todos[i].id = last.id
          /\ todos[i].completed
          /\ todos[i].tags # << >>
          /\ HasDate(todos[i].dueDate)
          /\ LastOf(todos).title = todos[i].title \o " (Copy)"

\* C9: in every reachable state the category collection is not empty and
\* holds the default category "personal".
C9_DefaultCategoryPresent ==
    /\ Len(categories) > 0
    /\ \E c \in Range(categories) : c.id = "personal"

\* C10: for the items of every reachable state, calculateTodoStats returns
\* completed + pending = total, the four priority buckets low, medium, high
\* and urgent, and a total that is the sum of the four.
C10_StatsAddUp ==
    LET stats == getTodoStats
    IN  /\ stats.total = Len(todos)
        /\ stats.completed + stats.pending = stats.total
        /\ DOMAIN stats.byPriority = {"low", "medium", "high", "urgent"}
        /\ stats.byPriority["low"] + stats.byPriority["medium"]
             + stats.byPriority["high"] + stats.byPriority["urgent"] = stats.total

\* C10 happens: the collection holds completed and pending items of
\* different priorities.
C10_Witness ==
    /\ \E i \in Indices(todos) : todos[i].completed
    /\ \E i \in Indices(todos) : ~todos[i].completed
    /\ \E i, j \in Indices(todos) : todos[i].priority # todos[j].priority

\* C11: the overdue count of calculateTodoStats is the number of items that
\* are not completed, have a due date, and are due on a calendar day before
\* the current one; items due today and completed items are not counted.
C11_OverdueCount ==
    getTodoStats.overdue =
        Cardinality({i \in Indices(todos) :
                        /\ ~todos[i].completed
                        /\ HasDate(todos[i].dueDate)
                        /\ (todos[i].dueDate.ms \div DayLength) < (now \div DayLength)})

\* A strictly increasing choice of positions of `whole` that spells `part`
IsSubsequence(part, whole) ==
    \E pick \in [Indices(part) -> Indices(whole)] :
        /\ \A i, j \in Indices(part) : i < j => pick[i] < pick[j]
        /\ \A i \in Indices(part) : part[i] = whole[pick[i]]

\* C12: filterTodos returns a subsequence of its input (input items only,
\* each position at most once, in input order), and with an empty spec or
\* with status "all" alone it returns the input unchanged.
C12_FilterNarrows ==
    call.fn = "filterTodos" =>
        /\ IsSubsequence(call.output, call.input)
        /\ call.filter \in {<< >>, [status |-> "all"]} => call.output = call.input

\* C12 happens: a filter dropped some items of a list and kept others, and
\* a filter without criteria was applied to a list of several items.
C12_Witness ==
    /\ call.fn = "filterTodos"
    /\ \/ /\ call.output # << >>
          /\ Len(call.output) < Len(call.input)
          /\ call.filter # << >>
       \/ /\ call.filter = [status |-> "all"]
          /\ Len(call.input) > 1

\* What the filter spec asks of an item, criterion by criterion
MatchesStatus(todo, filter) ==
    \/ "status" \notin DOMAIN filter
    \/ filter.status = "all"
    \/ filter.status = "active" /\ ~todo.completed
    \/ filter.status = "completed" /\ todo.completed

MatchesExactly(value, filter, key) ==
    key \in DOMAIN filter => (filter[key] = "" \/ filter[key] = value)

MatchesSearch(todo, filter) ==
    ("search" \in DOMAIN filter /\ filter.search # "") =>
        \/ includes(toLowerCase(todo.title), toLowerCase(filter.search))
        \/ /\ todo.description # Undefined
           /\ includes(toLowerCase(todo.description), toLowerCase(filter.search))

MatchesTag(todo, filter) ==
    ("tag" \in DOMAIN filter /\ filter.tag # "") =>
        \E i \in Indices(todo.tags) : todo.tags[i] = filter.tag

\* C13: an item of the input is in the result of filterTodos exactly when it
\* matches every criterion the spec gives: status, priority, category,
\* search term (in title or description, whatever the case), tag; an absent
\* or empty criterion asks nothing.
C13_FilterMatchesAll ==
    call.fn = "filterTodos" =>
        \A todo \in Range(call.input) :
            todo \in Range(call.output) <=>
                /\ MatchesStatus(todo, call.filter)
                /\ MatchesExactly(todo.priority, call.filter, "priority")
                /\ MatchesExactly(todo.category, call.filter, "category")
                /\ MatchesSearch(todo, call.filter)
                /\ MatchesTag(todo, call.filter)

\* C13 happens: a spec with a search term in capitals and a tag kept an item
\* that matches by its description only, and dropped another item.
C13_Witness ==
    /\ call.fn = "filterTodos"
    /\ "search" \in DOMAIN call.filter /\ call.filter.search = "MILK"
    /\ "tag" \in DOMAIN call.filter /\ call.filter.tag = "x"
    /\ \E todo \in Range(call.output) : todo.description = "Buy milk"
    /\ Len(call.output) < Len(call.input)

Reverse(s) == [i \in Indices(s) |-> s[Len(s) + 1 - i]]

SameItems(a, b) ==
    /\ Len(a) = Len(b)
    /\ \A x \in Range(a) \cup Range(b) :
          Cardinality({i \in Indices(a) : a[i] = x})
            = Cardinality({i \in Indices(b) : b[i] = x})

\* C15: sortTodos by priority returns the items of the input from the
\* highest rank (urgent 4) to the lowest (low 1) with direction "asc" or
\* without a direction, and from the lowest to the highest with "desc".
C15_PriorityOrder ==
    (call.fn = "sortTodos" /\ call.sortBy = "priority") =>
        /\ SameItems(call.output, call.input)
        /\ \A i, j \in Indices(call.output) :
              i < j =>
                IF call.sortOrder = "desc"
                THEN getPriorityValue(call.output[i].priority)
                       <= getPriorityValue(call.output[j].priority)
                ELSE getPriorityValue(call.output[i].priority)
                       >= getPriorityValue(call.output[j].priority)

\* C15 happens: a list given from low to urgent was sorted by priority
\* without a direction and came back from urgent to low.
C15_Witness ==
    /\ call.fn = "sortTodos"
    /\ call.sortBy = "priority"
    /\ call.sortOrder = Undefined
    /\ Len(call.input) = 3
    /\ call.input[1].priority = "low"
    /\ call.input[3].priority = "urgent"
    /\ call.output[1].priority = "urgent"
    /\ call.output[3].priority = "low"

\* The i-th smallest element of a set of positions
NthOf(positions, i) ==
    CHOOSE k \in positions : Cardinality({m \in positions : m <= k}) = i

\* C16: bulkDeleteTodos(ids) removes the items whose identifier is among
\* ids and no other, keeps the rest as they were and in their order, and
\* appends one notification that reports the number of ids asked for, also
\* when some or all of the ids name no item.
C16_BulkDeleteReportsRequested ==
    [][last'.op = "bulkDeleteTodos" =>
        LET asked == {last'.ids[n] : n \in Indices(last'.ids)}
            kept == {i \in Indices(todos) : todos[i].id \notin asked}
        IN  /\ Len(todos') = Cardinality(kept)
            /\ \A i \in Indices(todos') : todos'[i] = todos[NthOf(kept, i)]
            /\ Len(notifications') = Len(notifications) + 1
            /\ SubSeq(notifications', 1, Len(notifications)) = notifications
            /\ LastOf(notifications').message =
                  ToString(Len(last'.ids)) \o " todo(s) have been deleted"]_vars

\* C16 happens: of two items, bulkDeleteTodos removed the first when asked
\* for it and for an identifier that names no item, and reported 2.
C16_Witness ==
    /\ last.op = "bulkDeleteTodos"
    /\ Len(last.ids) = 2
    /\ last.ids[1] = "id1" /\ last.ids[2] = "nope"
    /\ Len(todos) = 1
    /\ todos[1].id # "id1"
    /\ notifications # << >>
    /\ LastOf(notifications).message = "2 todo(s) have been deleted"

\* C17: updateTodo, deleteTodo, toggleTodo and duplicateTodo with an
\* identifier no item has change neither items, categories nor filter and
\* append no notification.
C17_AbsentIdIsNoOp ==
    [][(/\ last'.op \in {"updateTodo", "deleteTodo", "toggleTodo", "duplicateTodo"}
        /\ last'.id \notin IdsOf(todos)) =>
        /\ todos' = todos
        /\ categories' = categories
        /\ filters' = filters
        /\ notifications' = notifications]_vars

\* C17 happens: updateTodo was called with an identifier no item has while
\* the collection held items.
C17_Witness ==
    /\ last.op = "updateTodo"
    /\ last.id = "nope"
    /\ Len(todos) = 2
    /\ \A i \in Indices(todos) : todos[i].id # "nope" /\ todos[i].title # "C"

\* The text importData was given, by its name
DocumentNamed(name) == CHOOSE doc \in ImportTexts : doc.name = name

\* C18: when the text given to importData does not parse, or parses to
\* something that is not an object (null, a number), items, categories and
\* filter stay as they were and exactly one notification, of type "error",
\* is appended.
C18_ImportFailsClosed ==
    [][(/\ last'.op = "importData"
        /\ DocumentNamed(last'.id).value # "object") =>
        /\ todos' = todos
        /\ categories' = categories
        /\ filters' = filters
        /\ Len(notifications') = Len(notifications) + 1
        /\ SubSeq(notifications', 1, Len(notifications)) = notifications
        /\ LastOf(notifications').type = "error"]_vars

\* What a document brings, in document order
IncomingOf(part) == IF part.kind = "array" THEN part.items ELSE << >>

\* C19: when importData succeeds, the old items and categories are kept,
\* unchanged, at the front of the new collections, the items and categories
\* of the document follow in document order, the filter is unchanged and
\* exactly one notification, of type "success", is appended.
C19_ImportAppends ==
    [][(/\ last'.op = "importData"
        /\ LastOf(notifications').type = "success") =>
        LET doc == DocumentNamed(last'.id)
        IN  /\ SubSeq(todos', 1, Len(todos)) = todos
            /\ SubSeq(todos', Len(todos) + 1, Len(todos')) = IncomingOf(doc.todos)
            /\ SubSeq(categories', 1, Len(categories)) = categories
            /\ SubSeq(categories', Len(categories) + 1, Len(categories'))
                  = IncomingOf(doc.categories)
            /\ filters' = filters
            /\ Len(notifications') = Len(notifications) + 1
            /\ SubSeq(notifications', 1, Len(notifications)) = notifications]_vars

\* C19 happens: the hand-written document was imported into a store that
\* held an item of its own: the item is first, the two imported items and
\* the imported category follow.
C19_Witness ==
    /\ last.op = "importData"
    /\ last.id = ForeignDocument.name
    /\ Len(todos) = 3
    /\ todos[1].id = "id1"
    /\ todos[2].id = "ext1" /\ todos[3].id = "ext2"
    /\ Len(categories) = Len(defaultCategories) + 1
    /\ LastOf(categories).name = "Office"
    /\ LastOf(notifications).type = "success"

\* C20: after every step that changes items, categories, filter or
\* notifications, the saved entry is the serialised triple (items,
\* categories, filter) of the new state; and a saved entry never holds
\* notifications.
C20_SnapshotFollowsState ==
    [][/\ (<<todos, categories, filters, notifications>>'
            # <<todos, categories, filters, notifications>>) =>
            /\ persisted'.present
            /\ persisted'.state.todos = [i \in Indices(todos') |-> ToJsonTodo(todos'[i])]
            /\ persisted'.state.categories = categories'
            /\ persisted'.state.filters = filters'
       /\ persisted'.present =>
            DOMAIN persisted'.state = {"todos", "categories", "filters"}]_vars

\* C20 happens: with an item and a notification in the store, a change of
\* the filter was saved; the entry holds the item, the four categories and
\* the new filter.
C20_Witness ==
    /\ last.op = "setFilter"
    /\ "priority" \in DOMAIN filters
    /\ notifications # << >>
    /\ Len(todos) = 1
    /\ persisted.present
    /\ Len(persisted.state.todos) = 1
    /\ persisted.state.todos[1].createdAt.kind = "string"
    /\ persisted.state.filters = filters
    /\ persisted.state.categories = defaultCategories

\* The operations that change items in place
ChangeOps == {"updateTodo", "toggleTodo", "bulkUpdateTodos", "deleteCategory"}

\* The items the operation recorded in `op` is aimed at, by position
AimedAt(ts, op) ==
    CASE op.op \in {"updateTodo", "toggleTodo"} ->
            {i \in Indices(ts) : ts[i].id = op.id}
      [] op.op = "bulkUpdateTodos" ->
            {i \in Indices(ts) : \E n \in Indices(op.ids) : op.ids[n] = ts[i].id}
      [] op.op = "deleteCategory" ->
            {i \in Indices(ts) : ts[i].category = op.id}
      [] OTHER -> {}

\* C21: no step lowers the updatedAt of an item.  updateTodo, toggleTodo,
\* bulkUpdateTodos and deleteCategory stamp every item they are aimed at
\* with the time of the call, keep its id and createdAt, and leave the
\* other items as they were; every other operation leaves the items it
\* keeps as they were.
C21_UpdatedAtGrows ==
    [][IF last'.op \in ChangeOps
       THEN /\ Len(todos') = Len(todos)
            /\ \A i \in Indices(todos) :
                  /\ todos'[i].updatedAt.ms >= todos[i].updatedAt.ms
                  /\ todos'[i].id = todos[i].id
                  /\ todos'[i].createdAt = todos[i].createdAt
                  /\ IF i \in AimedAt(todos, last')
                     THEN /\ todos'[i].updatedAt.kind = "Date"
                          /\ todos'[i].updatedAt.ms \in now..now'
                     ELSE todos'[i] = todos[i]
       ELSE \A j \in Indices(todos') :
                j <= Len(todos) => todos'[j] \in Range(todos)]_vars

\* C21 happens: deleteCategory moved an item to "personal" some time after
\* the item was created and stamped it with the time of the call.
C21_Witness ==
    /\ last.op = "deleteCategory"
    /\ last.id = "work"
    /\ \E i \in Indices(todos) :
          /\ todos[i].title = "B"
          /\ todos[i].category = "personal"
          /\ todos[i].updatedAt.ms > todos[i].createdAt.ms
          /\ todos[i].updatedAt.ms = now

\* C22: removeNotification(id) with an id that is not in the list (never
\* given out, or removed before) leaves the list as it is; with an id that
\* is in the list it removes that notification and keeps the others in
\* their order; a second removal of the same id changes nothing.
C22_RemoveIsIdempotent ==
    [][last'.op = "removeNotification" =>
        LET at == {i \in Indices(notifications) : notifications[i].id = last'.id}
        IN  /\ at = {} => notifications' = notifications
            /\ at # {} =>
                  /\ Cardinality(at) = 1
                  /\ \E i \in at :
                        notifications' = SubSeq(notifications, 1, i - 1)
                                          \o SubSeq(notifications, i + 1, Len(notifications))
            /\ removeNotificationFrom(notifications', last'.id) = notifications']_vars

\* C22 happens: of two notifications the older was removed, and the list
\* holds the newer one.
C22_Witness ==
    /\ last.op = "removeNotification"
    /\ last.id = "id1"
    /\ Len(notifications) = 1
    /\ notifications[1].id = "id2"

\* C23: whenever a timer fires, whatever ran before it, it removes the
\* notification it was set for if that one is still in the list and no
\* other (none if it is gone or the list was cleared, none added later),
\* and it changes neither items, categories nor filter.
C23_TimerRemovesOwnOnly ==
    [][last'.op = "timer" =>
        /\ todos' = todos
        /\ categories' = categories
        /\ filters' = filters
        /\ Len(notifications') >= Len(notifications) - 1
        /\ \A i \in Indices(notifications) :
              notifications[i].id # last'.id => notifications[i] \in Range(notifications')
        /\ IsSubsequence(notifications', notifications)
        /\ last'.id \notin IdsOf(notifications) => notifications' = notifications]_vars

\* C23 happens: the timer of a notification that clearAllData had dropped
\* fired, and the notification added after it is still in the list.
C23_Witness ==
    /\ last.op = "timer"
    /\ last.id = "id1"
    /\ Len(notifications) = 1
    /\ notifications[1].id = "id2"
    /\ notifications[1].title = "Data cleared"

\* The identifiers generateId can have given out in a run
GivenIds == {generateId(n) : n \in 1..(2 * MaxSteps + 1)}

\* C24: if every timer that was set fires, a notification added without
\* the persistent flag and with a positive or no duration is eventually no
\* longer in the list, and from some point on the list holds persistent
\* notifications only.
C24_AutoDismissed ==
    /\ \A id \in GivenIds :
          (\E i \in Indices(notifications) :
              /\ notifications[i].id = id
              /\ ~notifications[i].persistent
              /\ notifications[i] # NewNotification(ZeroDurationArgs, id))
          ~> (id \notin IdsOf(notifications))
    /\ <>[](\A i \in Indices(notifications) : notifications[i].persistent)

\* C24 happens: after the last handler call of a run the timers fired, the
\* notifications that were not persistent are gone, a persistent one stays.
C24_Witness ==
    /\ steps = MaxSteps
    /\ last.op = "timer"
    /\ timers = {}
    /\ Len(notifications) = 1
    /\ notifications[1].persistent
    /\ nextId > 3

\* C25: from every reachable state clearAllData leaves no item, the four
\* default categories personal, work, shopping and health, the filter
\* { status: "all" }, and a notification of type "success" as the last one.
C25_ClearAllResets ==
    [][last'.op = "clearAllData" =>
        /\ todos' = << >>
        /\ [i \in Indices(categories') |-> categories'[i].id]
              = << "personal", "work", "shopping", "health" >>
        /\ categories' = defaultCategories
        /\ DOMAIN filters' = {"status"}
        /\ filters'.status = "all"
        /\ notifications' # << >>
        /\ LastOf(notifications').type = "success"]_vars

\* C25 happens: clearAllData ran on a store whose item had been exported
\* before.
C25_Witness ==
    /\ last.op = "clearAllData"
    /\ exported # << >>
    /\ exported[1].todos.items # << >>
    /\ todos = << >>
    /\ categories = defaultCategories

\* C26: setFilter(partial) makes the filter the old one overlaid with
\* partial: the keys of partial take its values, every other key keeps its
\* value, so setFilter({}) changes nothing and no key goes away;
\* clearFilters makes it { status: "all" }; neither changes items,
\* categories or notifications.
C26_FilterMergeAndReset ==
    [][/\ last'.op = "setFilter" =>
            /\ DOMAIN filters' = DOMAIN filters \cup DOMAIN last'.patch
            /\ \A k \in DOMAIN filters' :
                  filters'[k] = IF k \in DOMAIN last'.patch THEN last'.patch[k]
                                                            ELSE filters[k]
            /\ last'.patch = << >> => filters' = filters
       /\ last'.op = "clearFilters" => filters' = [status |-> "all"]
       /\ last'.op \in {"setFilter", "clearFilters"} =>
            /\ todos' = todos
            /\ categories' = categories
            /\ notifications' = notifications]_vars

\* C26 happens: setFilter({}) ran on a filter with a priority and a status
\* other than "all", and both are still there.
C26_Witness ==
    /\ last.op = "setFilter"
    /\ last.patch = << >>
    /\ "priority" \in DOMAIN filters
    /\ filters.status = "active"

\* Two items that the sort key does not tell apart
SameKey(a, b, sortBy) ==
    CASE sortBy = "createdAt" -> a.createdAt.ms = b.createdAt.ms
      [] sortBy = "dueDate" ->
            \/ ~HasDate(a.dueDate) /\ ~HasDate(b.dueDate)
            \/ /\ HasDate(a.dueDate) /\ HasDate(b.dueDate)
               /\ a.dueDate.ms = b.dueDate.ms
      [] sortBy = "priority" -> a.priority = b.priority
      [] sortBy = "title" -> a.title = b.title

C28_DeleteAbsentCategory ==
    [][(last'.op = "deleteCategory" /\ last'.id \notin IdsOf(categories)) =>
        /\ categories' = categories
        /\ todos' = todos
        /\ notifications' = notifications]_vars

\* C29: toggleTodo(id) with an id an item has appends exactly one
\* notification; its title is "Todo completed" if the item is completed
\* afterwards and "Todo reopened" if it is not.
C29_ToggleNotifiesOnce ==
    [][(last'.op = "toggleTodo" /\ last'.id \in IdsOf(todos)) =>
        /\ Len(notifications') = Len(notifications) + 1
        /\ SubSeq(notifications', 1, Len(notifications)) = notifications
        /\ LastOf(notifications').title =
              IF getTodoById(todos', last'.id)[1].completed
              THEN "Todo completed" ELSE "Todo reopened"]_vars

\* C30: after clearAllData the list holds one notification, "Data cleared"
\* of type "success", whatever it held before; and a timer set for another
\* notification does not remove a "Data cleared" notification.
C30_ClearAllLeavesOneNotification ==
    [][/\ last'.op = "clearAllData" =>
            /\ Len(notifications') = 1
            /\ notifications'[1].title = "Data cleared"
            /\ notifications'[1].type = "success"
            /\ notifications'[1].id \notin timers
            /\ notifications'[1].id \notin IdsOf(notifications)
       /\ last'.op = "timer" =>
            \A i \in Indices(notifications) :
                (notifications[i].title = "Data cleared"
                 /\ notifications[i].id # last'.id)
                => notifications[i] \in Range(notifications')]_vars

\* C30 happens: clearAllData ran while two notifications with pending
\* timers were in the list; the list holds the new one alone, the old
\* timers are still pending.
C30_Witness ==
    /\ last.op = "clearAllData"
    /\ Len(notifications) = 1
    /\ notifications[1].title = "Data cleared"
    /\ Cardinality(timers) = 3
    /\ notifications[1].id \in timers

====
